---- MODULE Spec2Model ----
(***************************************************************************)
(* A model of the two scrapers of the repository:                          *)
(*   water-code-scraper.py  (leginfo: division -> part -> chapter ->       *)
(*                           article, driven by main over the configured   *)
(*                           code sections), and                           *)
(*   ccr-scraper.py         (westlaw: chapter -> article -> section).      *)
(* The web site and the file system are the environment: every response    *)
(* and every disk outcome is chosen nondeterministically from small sets.  *)
(* One run executes one of the two programs (prog).                        *)
(***************************************************************************)
EXTENDS Integers, Sequences, FiniteSets, TLC

\* ------------------------------------------------------------------ bounds
\* anchors (or list items) on one listing page
MaxList == 2
\* nodes discovered in one run of water-code-scraper.py, over all listing pages
MaxNodes == 3
\* nodes discovered in one run of ccr-scraper.py, over all listing pages
MaxCcrNodes == 5

\* characters in a title passed to a file-name function
MaxTitle == 2
\* <img> elements of one section page
MaxImgs == 2
\* child elements of one <div> of a section page
MaxParas == 2
\* <li> elements of the citation list of a section page
MaxCites == 2

\* ------------------------------------------------- configuration constants
\* len(CODE_SECTIONS_TO_SCRAPE)
NumConfigs == 2

VARIABLES
    prog,                 \* "water" | "ccr": which script runs
    pc,                   \* position of the (single) thread of control
    exc,                  \* the uncaught exception that ended the run, if any
    inflight,             \* HTTP requests issued and not yet answered
    console,              \* the run's verdict lines printed so far, in order
    discovered,           \* number of nodes discovered so far in this run
    log,                  \* fetches, writes and sleeps of the current crawl, in order
    files,                \* leaf files written to the current output directory, in order
    manifests,            \* manifest files written to the current output directory
    \* water-code-scraper.py
    specific_parts,       \* scrape_code_section: config.get('parts') of the current config
    cfgIdx,               \* main: index of the config being processed
    total_successful,     \* main: total_successful
    main_total_items,     \* main: total_items
    parts,                \* scrape_code_section: parts (with nested chapters, articles)
    pi, ci, ai,           \* loop indices: part_info, chapter, article
    all_content,          \* scrape_code_section: all_content (node paths)
    successful_downloads, \* scrape_code_section: successful_downloads
    total_items,          \* scrape_code_section: total_items
    \* ccr-scraper.py
    articles,             \* scrape_chapter_3_5: articles (with nested sections)
    i, j,                 \* loop indices of enumerate(articles, 1), enumerate(sections, 1)
    article_info,         \* scrape_chapter_3_5: article_info of the current article
    scraping_log,         \* scrape_chapter_3_5: scraping_log
    all_images,           \* scrape_chapter_3_5: all_images
    \* a single call of one of the text functions, outside any crawl
    call,                 \* the function called
    arg,                  \* its argument
    result                \* what it returned

mainVars == <<specific_parts, cfgIdx, total_successful, main_total_items>>
sectionVars == <<parts, pi, ci, ai, all_content, successful_downloads, total_items>>
waterVars == <<mainVars, sectionVars>>
ccrVars == <<articles, i, j, article_info, scraping_log, all_images>>
textVars == <<call, arg, result>>
vars == <<prog, pc, exc, inflight, console, discovered, log, files, manifests,
          waterVars, ccrVars, textVars>>

\* =================================================================== site
\* A label is the value of a positional query parameter of an href, a
\* sequence of characters; on the site it carries a trailing dot ("12.").
Dot == "."
NoParam == <<>>
Labels == {<<"1", Dot>>, <<"2", Dot>>}

\* One <a href> of a listing page, reduced to what the scanners look at:
\*   href     which page the href names: an expanded-branch listing
\*            (codes_displayexpandedbranch.xhtml), a text page
\*            (codes_displayText.xhtml) or something else
\*   div      the anchor holds a div with the level's margin-left style
\*   kw       the div's text holds the level's keyword (PART, CHAPTER, ARTICLE)
\*   reserved the div's text holds "(Reserved)"
\*   param    the level's query parameter (part=, chapter=, article=)
Anchor(href, div, kw, reserved, param) ==
    [href |-> href, div |-> div, kw |-> kw, reserved |-> reserved, param |-> param]

\* The anchors a division page, a part page and a chapter page may hold:
\* well-formed entries, entries flagged reserved, and entries that fail one
\* of the other tests of the level's scanner.
PartAnchors ==
    { Anchor("expanded", TRUE, TRUE, FALSE, <<"1", Dot>>),
      Anchor("text", TRUE, TRUE, FALSE, <<"1", Dot>>),
      Anchor("text", TRUE, TRUE, FALSE, <<"2", Dot>>),
      Anchor("text", TRUE, TRUE, TRUE, <<"1", Dot>>),
      Anchor("text", FALSE, TRUE, FALSE, <<"1", Dot>>),
      Anchor("text", TRUE, TRUE, FALSE, NoParam) }
ChapterAnchors ==
    { Anchor("expanded", TRUE, TRUE, FALSE, <<"1", Dot>>),
      Anchor("text", TRUE, TRUE, FALSE, <<"1", Dot>>),
      Anchor("expanded", TRUE, TRUE, TRUE, <<"1", Dot>>),
      Anchor("other", TRUE, TRUE, FALSE, <<"1", Dot>>),
      Anchor("text", TRUE, FALSE, FALSE, <<"1", Dot>>) }
ArticleAnchors ==
    { Anchor("text", TRUE, TRUE, FALSE, <<"1", Dot>>),
      Anchor("text", TRUE, TRUE, TRUE, <<"1", Dot>>),
      Anchor("expanded", TRUE, TRUE, FALSE, <<"1", Dot>>),
      Anchor("text", FALSE, TRUE, FALSE, <<"1", Dot>>) }

Pages(anchors) == UNION { [1..n -> anchors] : n \in 0..MaxList }

\* The answer to a GET of a listing page: a transport error or non-2xx
\* status (ok = FALSE), or a document with or without the content container.
ListingResponses(anchors) ==
    { [ok |-> FALSE, container |-> FALSE, anchors |-> <<>>],
      [ok |-> TRUE, container |-> FALSE, anchors |-> <<>>] }
    \cup { [ok |-> TRUE, container |-> TRUE, anchors |-> p] : p \in Pages(anchors) }

\* The answer to a GET of a leaf's text page.
ContentResponses == {"error", "nocontainer", "content"}

\* One <li> of a westlaw list: whether it holds a link with an href, and
\* the link's text.
Item(link, title) == [link |-> link, title |-> title]
Items == { Item(TRUE, "title"), Item(FALSE, "") }

\* The answer to a GET of a westlaw listing page.
CcrListingResponses ==
    { [ok |-> FALSE, container |-> FALSE, items |-> <<>>],
      [ok |-> TRUE, container |-> FALSE, items |-> <<>>] }
    \cup { [ok |-> TRUE, container |-> TRUE, items |-> p] :
             p \in UNION { [1..n -> Items] : n \in 0..MaxList } }

\* what process_mathematical_images may return for a section page: the
\* local file names of the images it downloaded and replaced
ImageLists == { <<>>, <<"formula.png">> }

\* The part filters a configuration may carry: None, or a list of labels.
NoFilter == [none |-> TRUE, items |-> <<>>]
FilterList(items) == [none |-> FALSE, items |-> items]
Filters == { NoFilter, FilterList(<<>>), FilterList(<< <<"1">> >>) }

\* ================================================================ helpers
Ev(t, op, node, res) == [t |-> t, op |-> op, node |-> node, res |-> res]
Sleep == Ev("sleep", "time.sleep", <<>>, "")

NoExc == [type |-> "none", fn |-> ""]

InList(x, list) == \E k \in 1..Len(list) : list[k] = x

\* str.rstrip('.')
RECURSIVE RStrip(_)
RStrip(s) ==
    IF s # <<>> /\ s[Len(s)] = Dot THEN RStrip(SubSeq(s, 1, Len(s) - 1)) ELSE s

\* the anchors of a page with their document positions
Positioned(anchors) == [k \in 1..Len(anchors) |-> [a |-> anchors[k], pos |-> k]]

\* ================================================= water-code-scraper.py
\* `if specific_parts and part.rstrip('.') not in specific_parts: continue`
FilteredOut(param, wanted) ==
    /\ ~wanted.none
    /\ wanted.items # <<>>
    /\ ~InList(RStrip(param), wanted.items)

\* the tests of get_division_structure's loop body that let an anchor through
PartAccepted(a, wanted) ==
    /\ a.div
    /\ a.kw
    /\ ~a.reserved
    /\ a.param # NoParam
    /\ ~FilteredOut(a.param, wanted)

PartInfo(x) ==
    [url |-> x.pos, title |-> [kw |-> x.a.kw, reserved |-> x.a.reserved],
     part |-> x.a.param, has_chapters |-> (x.a.href = "expanded"),
     chapters |-> <<>>]

\* get_division_structure, after the response has arrived without error
get_division_structure(resp, wanted) ==
    IF ~resp.container THEN <<>>
    ELSE LET kept == SelectSeq(Positioned(resp.anchors),
                               LAMBDA x : PartAccepted(x.a, wanted))
         IN [k \in 1..Len(kept) |-> PartInfo(kept[k])]

ChapterAccepted(a) ==
    /\ a.div
    /\ ~a.reserved
    /\ a.kw
    /\ a.param # NoParam
    /\ a.href \in {"expanded", "text"}

ChapterInfo(x) ==
    [url |-> x.pos, title |-> [kw |-> x.a.kw, reserved |-> x.a.reserved],
     chapter |-> x.a.param, has_articles |-> (x.a.href = "expanded"),
     articles |-> <<>>]

get_chapters_for_part(resp) ==
    IF ~resp.container THEN <<>>
    ELSE LET kept == SelectSeq(Positioned(resp.anchors), LAMBDA x : ChapterAccepted(x.a))
         IN [k \in 1..Len(kept) |-> ChapterInfo(kept[k])]

ArticleAccepted(a) ==
    /\ a.div
    /\ a.href = "text"
    /\ a.kw

ArticleInfo(x) ==
    [url |-> x.pos, title |-> [kw |-> x.a.kw, reserved |-> x.a.reserved],
     article |-> x.a.param]

get_articles_for_chapter(resp) ==
    IF ~resp.container THEN <<>>
    ELSE LET kept == SelectSeq(Positioned(resp.anchors), LAMBDA x : ArticleAccepted(x.a))
         IN [k \in 1..Len(kept) |-> ArticleInfo(kept[k])]

\* parse_legal_code_html: "" when no content container is found
parse_legal_code_html(resp) == IF resp = "content" THEN "text" ELSE ""

\* scrape_content: raise_for_status raises on an error response
scrape_content(resp) ==
    IF resp = "error" THEN [raised |-> TRUE, value |-> ""]
    ELSE [raised |-> FALSE, value |-> parse_legal_code_html(resp)]

\* the loop running over reversed(xs)
Visit_Reversed(k, n) == n + 1 - k

\* `for x in xs:` the index in xs of the element taken by the k-th iteration
Visit(k, n) == k

\* the elements the three nested loops of scrape_code_section are at
PIdx == Visit(pi, Len(parts))
CurPart == parts[PIdx]
CIdx == Visit(ci, Len(CurPart.chapters))
CurChapter == CurPart.chapters[CIdx]
AIdx == Visit(ai, Len(CurChapter.articles))
CurArticle == CurChapter.articles[AIdx]

\* the test written as `if 'has_articles' in chapter:`, true of every chapter
ChapterExpands_KeyPresent(chapter) == TRUE

\* `if part_info['has_chapters']:` and `if chapter.get('has_articles'):`
PartExpands(part_info) == part_info.has_chapters
ChapterExpands(chapter) == chapter.has_articles

\* label.replace('.', '_')
DotsReplaced(label) == [k \in 1..Len(label) |-> IF label[k] = Dot THEN "_" ELSE label[k]]

\* create_filename, as the pieces the name is joined from: the code and
\* division of the configuration, then part, chapter and article with
\* their dots replaced, as far as they are given, then the title
create_filename(code, part, chapter, article, title) ==
    LET p == IF part # NoParam THEN DotsReplaced(part) ELSE <<"unknown">>
    IN IF article # NoParam
       THEN <<code, "part", p, "ch", DotsReplaced(chapter), "art", DotsReplaced(article), title>>
       ELSE IF chapter # NoParam
       THEN <<code, "part", p, "ch", DotsReplaced(chapter), title>>
       ELSE <<code, "part", p, title>>

\* The body of one `try: ... except Exception` leaf block of
\* scrape_code_section, from the answer of scrape_content on: the file is
\* written when there is content, then the delay; an exception raised by
\* scrape_content or by the write is caught and printed.
LeafBlock(node, fname, resp, diskOk) ==
    LET r == scrape_content(resp) IN
    IF r.raised
    THEN [log |-> <<Ev("fetch", "scrape_content", node, "raised")>>,
          files |-> <<>>, saved |-> 0]
    ELSE IF r.value # ""
    THEN IF diskOk
         THEN [log |-> <<Ev("fetch", "scrape_content", node, "returned"),
                         Ev("write", "open", node, "written"), Sleep>>,
               files |-> << [node |-> node, name |-> fname] >>, saved |-> 1]
         ELSE [log |-> <<Ev("fetch", "scrape_content", node, "returned"),
                         Ev("write", "open", node, "raised")>>,
               files |-> <<>>, saved |-> 0]
    ELSE [log |-> <<Ev("fetch", "scrape_content", node, "returned"), Sleep>>,
          files |-> <<>>, saved |-> 0]

\* ======================================================== ccr-scraper.py
NoArticleInfo == [url |-> 0, title |-> "", sections |-> <<>>]

\* get_page_content: the parsed document, or None on any exception
None == [none |-> TRUE, container |-> FALSE, items |-> <<>>]
get_page_content(resp) ==
    IF resp.ok
    THEN [none |-> FALSE, container |-> resp.container, items |-> resp.items]
    ELSE None

\* what get_page_content's caller records of the call
PageFetched(op, node, ok) ==
    Ev("fetch", op, node, IF ok THEN "returned" ELSE "returned None")

\* the scan collecting with insert(0, ...) instead of append
ListLinks_Prepended(doc) ==
    LET kept == SelectSeq([k \in 1..Len(doc.items) |-> [a |-> doc.items[k], pos |-> k]],
                          LAMBDA x : x.a.link)
    IN [k \in 1..Len(kept) |-> kept[Len(kept) + 1 - k]]

\* the <li> scan shared by extract_articles_from_chapter and
\* extract_sections_from_article: links with an href, in document order
ListLinks(doc) ==
    SelectSeq([k \in 1..Len(doc.items) |-> [a |-> doc.items[k], pos |-> k]],
              LAMBDA x : x.a.link)

extract_articles_from_chapter(resp) ==
    LET soup == get_page_content(resp) IN
    IF soup.none THEN <<>>
    ELSE IF ~soup.container THEN <<>>
    ELSE LET kept == ListLinks(soup)
         IN [k \in 1..Len(kept) |->
                [title |-> kept[k].a.title, url |-> kept[k].pos, sections |-> <<>>]]

extract_sections_from_article(resp) ==
    LET soup == get_page_content(resp) IN
    IF soup.none THEN <<>>
    ELSE IF ~soup.container THEN <<>>
    ELSE LET kept == ListLinks(soup)
         IN [k \in 1..Len(kept) |-> [title |-> kept[k].a.title, url |-> kept[k].pos]]

\* extract_section_content: (content, images); ("", []) when the fetch
\* fails, ("", images) when the document has no co_document container
extract_section_content(resp, imgs) ==
    IF resp = "error" THEN [content |-> "", images |-> <<>>]
    ELSE IF resp = "nocontainer" THEN [content |-> "", images |-> imgs]
    ELSE [content |-> "text", images |-> imgs]

\* the leaf file name: article_{i}_section_{j}_{create_safe_filename(title)}.txt
SectionFilename(ii, jj, title) == <<ii, jj, title>>

\* the elements the two nested loops of scrape_chapter_3_5 are at
IIdx == Visit(i, Len(articles))
CurSections == articles[IIdx].sections
JIdx == Visit(j, Len(CurSections))
CurSection == CurSections[JIdx]

\* scrape_chapter_3_5 issues the request for the chapter page
CStart ==
    /\ prog = "ccr" /\ pc = "ccr_start"
    /\ pc' = "await_chapter_page"
    /\ inflight' = inflight + 1
    /\ UNCHANGED <<prog, textVars, exc, console, discovered, log, files, manifests, waterVars, ccrVars>>

\* extract_articles_from_chapter returns; scraping_log is set up
CChapterPage ==
    /\ pc = "await_chapter_page"
    /\ inflight' = inflight - 1
    /\ \E resp \in CcrListingResponses :
        LET found == extract_articles_from_chapter(resp) IN
        /\ discovered + Len(found) <= MaxCcrNodes
        /\ discovered' = discovered + Len(found)
        /\ articles' = found
        /\ log' = Append(log, PageFetched("extract_articles_from_chapter", <<>>, resp.ok))
    /\ scraping_log' = [articles |-> <<>>, total_sections |-> 0, images_downloaded |-> 0]
    /\ all_images' = <<>>
    /\ i' = 1
    /\ pc' = "ccr_articles"
    /\ UNCHANGED <<prog, textVars, exc, console, files, manifests, waterVars, j, article_info>>

\* `for i, article in enumerate(articles, 1):` up to the article page request
CArticleStep ==
    /\ pc = "ccr_articles" /\ i <= Len(articles)
    /\ pc' = "await_article_page"
    /\ inflight' = inflight + 1
    /\ UNCHANGED <<prog, textVars, exc, console, discovered, log, files, manifests, waterVars, ccrVars>>

\* extract_sections_from_article returns; article_info is created
CArticlePage ==
    /\ pc = "await_article_page"
    /\ inflight' = inflight - 1
    /\ \E resp \in CcrListingResponses :
        LET sections == extract_sections_from_article(resp) IN
        /\ discovered + Len(sections) <= MaxCcrNodes
        /\ discovered' = discovered + Len(sections)
        /\ articles' = [articles EXCEPT ![IIdx].sections = sections]
        /\ log' = Append(log, PageFetched("extract_sections_from_article", <<IIdx>>, resp.ok))
    /\ article_info' = [title |-> articles[IIdx].title, url |-> articles[IIdx].url,
                        sections |-> <<>>]
    /\ j' = 1
    /\ pc' = "ccr_sections"
    /\ UNCHANGED <<prog, textVars, exc, console, files, manifests, waterVars, i, scraping_log, all_images>>

\* `for j, section in enumerate(sections, 1):` up to the section page request
CSectionStep ==
    /\ pc = "ccr_sections" /\ j <= Len(CurSections)
    /\ pc' = "await_section_page"
    /\ inflight' = inflight + 1
    /\ UNCHANGED <<prog, textVars, exc, console, discovered, log, files, manifests, waterVars, ccrVars>>

\* the rest of the section loop body: extract_section_content returns, the
\* section file is written when there is content, then time.sleep(1)
CSectionPage ==
    /\ pc = "await_section_page"
    /\ inflight' = inflight - 1
    /\ \E resp \in ContentResponses, imgs \in ImageLists, diskOk \in BOOLEAN :
        LET r == extract_section_content(resp, imgs)
            node == <<IIdx, JIdx>>
            filename == SectionFilename(i, j, CurSection.title)
            \* the page request, then download_image for every image that
            \* process_mathematical_images downloads and replaces
            fetched == <<PageFetched("extract_section_content", node, resp # "error")>>
                       \o [k \in 1..Len(r.images) |->
                             Ev("download", "download_image", node, r.images[k])]
        IN
        IF r.content # "" /\ ~diskOk
        THEN \* open() raises and nothing catches it
             /\ pc' = "crashed"
             /\ exc' = [type |-> "IOError", fn |-> "scrape_chapter_3_5"]
             /\ log' = log \o fetched \o <<Ev("write", "open", node, "raised")>>
             /\ UNCHANGED <<files, all_images, article_info, scraping_log, j>>
        ELSE /\ pc' = "ccr_sections"
             /\ j' = j + 1
             /\ UNCHANGED exc
             /\ IF r.content # ""
                THEN /\ files' = Append(files, [node |-> node, name |-> filename])
                     /\ all_images' = all_images \o [k \in 1..Len(r.images) |->
                                                      [owner |-> node, local_file |-> r.images[k]]]
                     /\ article_info' =
                          [article_info EXCEPT !.sections =
                             Append(@, [title |-> CurSection.title, url |-> CurSection.url,
                                        filename |-> filename, images |-> r.images])]
                     /\ scraping_log' = [scraping_log EXCEPT !.total_sections = @ + 1]
                     /\ log' = log \o fetched \o <<Ev("write", "open", node, "written"), Sleep>>
                ELSE /\ log' = log \o fetched \o <<Sleep>>
                     /\ UNCHANGED <<files, all_images, article_info, scraping_log>>
    /\ UNCHANGED <<prog, textVars, console, discovered, manifests, waterVars, articles, i>>

\* the section loop is exhausted: scraping_log['articles'].append(article_info)
CSectionsEnd ==
    /\ pc = "ccr_sections" /\ j > Len(CurSections)
    /\ scraping_log' = [scraping_log EXCEPT !.articles = Append(@, article_info)]
    /\ i' = i + 1
    /\ pc' = "ccr_articles"
    /\ UNCHANGED <<prog, textVars, exc, inflight, console, discovered, log, files, manifests,
                   waterVars, articles, j, article_info, all_images>>

\* the article loop is exhausted: scraping_log.json is written, and
\* images_metadata.json when there are images
CSaveLog ==
    /\ pc = "ccr_articles" /\ i > Len(articles)
    /\ scraping_log' = [scraping_log EXCEPT !.images_downloaded = Len(all_images)]
    /\ manifests' = manifests
                    \o << [file |-> "scraping_log.json", content |-> scraping_log'] >>
                    \o (IF all_images # <<>>
                        THEN << [file |-> "images_metadata.json", content |-> all_images] >>
                        ELSE <<>>)
    /\ console' = Append(console, "Scraping complete!")
    /\ pc' = "ccr_complete"
    /\ UNCHANGED <<prog, textVars, exc, inflight, discovered, log, files, waterVars,
                   articles, i, j, article_info, all_images>>

CcrNext ==
    \/ CStart \/ CChapterPage
    \/ CArticleStep \/ CArticlePage
    \/ CSectionStep \/ CSectionPage \/ CSectionsEnd
    \/ CSaveLog

\* ------------------------------------------------------------------ Init
\* nothing fetched, written or discovered yet
NothingDone ==
    /\ exc = NoExc
    /\ inflight = 0
    /\ console = <<>>
    /\ discovered = 0
    /\ log = <<>>
    /\ files = <<>>
    /\ manifests = <<>>
    /\ specific_parts = NoFilter
    /\ cfgIdx = 1
    /\ total_successful = 0
    /\ main_total_items = 0
    /\ parts = <<>>
    /\ pi = 0 /\ ci = 0 /\ ai = 0
    /\ all_content = <<>>
    /\ successful_downloads = 0
    /\ total_items = 0
    /\ articles = <<>>
    /\ i = 0 /\ j = 0
    /\ article_info = NoArticleInfo
    /\ scraping_log = [articles |-> <<>>, total_sections |-> 0, images_downloaded |-> 0]
    /\ all_images = <<>>

Init ==
    /\ prog \in {"water", "ccr"}
    /\ pc = IF prog = "water" THEN "main" ELSE "ccr_start"
    /\ NothingDone
    /\ call = "none" /\ arg = <<>> /\ result = <<>>

\* ---------------------------------------------------------------- main
\* main: the next config; scrape_code_section issues the division request
WMainNext ==
    /\ prog = "water" /\ pc = "main" /\ cfgIdx <= NumConfigs
    /\ \E f \in Filters : specific_parts' = f
    /\ pc' = "await_division"
    /\ inflight' = inflight + 1
    \* a new call frame and a new output directory
    /\ log' = <<>> /\ files' = <<>> /\ manifests' = <<>>
    /\ parts' = <<>> /\ pi' = 0 /\ ci' = 0 /\ ai' = 0
    /\ all_content' = <<>> /\ successful_downloads' = 0 /\ total_items' = 0
    /\ UNCHANGED <<ccrVars, prog, textVars, exc, console, discovered, cfgIdx, total_successful,
                   main_total_items>>

\* main: all configs processed, the final summary
WMainDone ==
    /\ prog = "water" /\ pc = "main" /\ cfgIdx > NumConfigs
    /\ pc' = "complete"
    /\ console' = Append(console, "SCRAPING COMPLETE!")
    /\ UNCHANGED <<ccrVars, prog, textVars, exc, inflight, discovered, log, files, manifests, waterVars>>

\* An exception nobody catches: the traceback, and the process ends.
Crash(type, fn, events) ==
    /\ pc' = "crashed"
    /\ exc' = [type |-> type, fn |-> fn]
    /\ log' = log \o events

\* scrape_code_section, from the division response to the head of the part loop
WDivisionResponse ==
    /\ pc = "await_division"
    /\ inflight' = inflight - 1
    /\ \E resp \in ListingResponses(PartAnchors) :
        IF ~resp.ok
        THEN /\ Crash("HTTPError", "get_division_structure",
                      <<Ev("fetch", "get_division_structure", <<>>, "raised")>>)
             /\ UNCHANGED <<ccrVars, prog, textVars, console, discovered, files, manifests, waterVars>>
        ELSE LET found == get_division_structure(resp, specific_parts) IN
             /\ discovered + Len(found) <= MaxNodes
             /\ discovered' = discovered + Len(found)
             /\ parts' = found
             /\ log' = Append(log, Ev("fetch", "get_division_structure", <<>>, "returned"))
             /\ IF found = <<>>
                THEN \* "No parts found!": return 0, 0
                     /\ pc' = "main"
                     /\ cfgIdx' = cfgIdx + 1
                     /\ console' = Append(console, "No parts found!")
                     /\ UNCHANGED <<pi, ci, ai, all_content, successful_downloads, total_items>>
                ELSE /\ pc' = "parts"
                     /\ pi' = 1 /\ ci' = 0 /\ ai' = 0
                     /\ all_content' = <<>>
                     /\ successful_downloads' = 0
                     /\ total_items' = 0
                     /\ UNCHANGED <<cfgIdx, console>>
             /\ UNCHANGED <<ccrVars, prog, textVars, exc, files, manifests, specific_parts, total_successful, main_total_items>>

\* `for part_info in parts:` one iteration up to its first request
WPartStep ==
    /\ pc = "parts" /\ pi <= Len(parts)
    /\ inflight' = inflight + 1
    /\ IF PartExpands(CurPart)
       THEN /\ pc' = "await_chapters"
            /\ UNCHANGED <<all_content, total_items>>
       ELSE /\ pc' = "await_part_content"
            /\ total_items' = total_items + 1
            /\ all_content' = Append(all_content, <<PIdx>>)
    /\ UNCHANGED <<ccrVars, prog, textVars, exc, console, log, discovered, files, manifests, mainVars,
                   parts, pi, ci, ai, successful_downloads>>

\* get_chapters_for_part returns (or raises) and the part's chapters are set
WChaptersResponse ==
    /\ pc = "await_chapters"
    /\ inflight' = inflight - 1
    /\ \E resp \in ListingResponses(ChapterAnchors) :
        IF ~resp.ok
        THEN /\ Crash("HTTPError", "get_chapters_for_part",
                      <<Ev("fetch", "get_chapters_for_part", <<PIdx>>, "raised")>>)
             /\ UNCHANGED <<ccrVars, prog, textVars, console, discovered, files, manifests, waterVars>>
        ELSE LET found == get_chapters_for_part(resp) IN
             /\ discovered + Len(found) <= MaxNodes
             /\ discovered' = discovered + Len(found)
             /\ log' = Append(log, Ev("fetch", "get_chapters_for_part", <<PIdx>>, "returned"))
             /\ IF found # <<>>
                THEN /\ parts' = [parts EXCEPT ![PIdx].chapters = found]
                     /\ pc' = "chapters"
                     /\ ci' = 1
                     /\ UNCHANGED pi
                ELSE /\ pc' = "parts"
                     /\ pi' = pi + 1
                     /\ UNCHANGED <<parts, ci>>
             /\ UNCHANGED <<ccrVars, prog, textVars, exc, console, files, manifests, mainVars, ai, all_content,
                            successful_downloads, total_items>>

\* `for chapter in chapters:` one iteration up to its first request
WChapterStep ==
    /\ pc = "chapters" /\ ci <= Len(CurPart.chapters)
    /\ inflight' = inflight + 1
    /\ IF ChapterExpands(CurChapter)
       THEN /\ pc' = "await_articles"
            /\ UNCHANGED <<all_content, total_items>>
       ELSE /\ pc' = "await_chapter_content"
            /\ total_items' = total_items + 1
            /\ all_content' = Append(all_content, <<PIdx, CIdx>>)
    /\ UNCHANGED <<ccrVars, prog, textVars, exc, console, log, discovered, files, manifests, mainVars,
                   parts, pi, ci, ai, successful_downloads>>

\* the chapter loop is exhausted: on to the next part
WChaptersEnd ==
    /\ pc = "chapters" /\ ci > Len(CurPart.chapters)
    /\ pc' = "parts"
    /\ pi' = pi + 1
    /\ UNCHANGED <<ccrVars, prog, textVars, exc, inflight, console, log, discovered, files, manifests, mainVars,
                   parts, ci, ai, all_content, successful_downloads, total_items>>

\* get_articles_for_chapter returns (or raises) and the chapter's articles are set
WArticlesResponse ==
    /\ pc = "await_articles"
    /\ inflight' = inflight - 1
    /\ \E resp \in ListingResponses(ArticleAnchors) :
        IF ~resp.ok
        THEN /\ Crash("HTTPError", "get_articles_for_chapter",
                      <<Ev("fetch", "get_articles_for_chapter", <<PIdx, CIdx>>, "raised")>>)
             /\ UNCHANGED <<ccrVars, prog, textVars, console, discovered, files, manifests, waterVars>>
        ELSE LET found == get_articles_for_chapter(resp) IN
             /\ discovered + Len(found) <= MaxNodes
             /\ discovered' = discovered + Len(found)
             /\ log' = Append(log, Ev("fetch", "get_articles_for_chapter", <<PIdx, CIdx>>, "returned"))
             /\ IF found # <<>>
                THEN /\ parts' = [parts EXCEPT ![PIdx].chapters[CIdx].articles = found]
                     /\ pc' = "articles"
                     /\ ai' = 1
                     /\ UNCHANGED ci
                ELSE /\ pc' = "chapters"
                     /\ ci' = ci + 1
                     /\ UNCHANGED <<parts, ai>>
             /\ UNCHANGED <<ccrVars, prog, textVars, exc, console, files, manifests, mainVars, pi, all_content,
                            successful_downloads, total_items>>

\* `for article in articles:` one iteration up to its request
WArticleStep ==
    /\ pc = "articles" /\ ai <= Len(CurChapter.articles)
    /\ inflight' = inflight + 1
    /\ pc' = "await_article_content"
    /\ total_items' = total_items + 1
    /\ all_content' = Append(all_content, <<PIdx, CIdx, AIdx>>)
    /\ UNCHANGED <<ccrVars, prog, textVars, exc, console, log, discovered, files, manifests, mainVars,
                   parts, pi, ci, ai, successful_downloads>>

\* the article loop is exhausted: on to the next chapter
WArticlesEnd ==
    /\ pc = "articles" /\ ai > Len(CurChapter.articles)
    /\ pc' = "chapters"
    /\ ci' = ci + 1
    /\ UNCHANGED <<ccrVars, prog, textVars, exc, inflight, console, log, discovered, files, manifests, mainVars,
                   parts, pi, ai, all_content, successful_downloads, total_items>>

\* what a leaf block leaves behind, whatever the level
LeafDone(b) ==
    /\ inflight' = inflight - 1
    /\ log' = log \o b.log
    /\ files' = files \o b.files
    /\ successful_downloads' = successful_downloads + b.saved
    /\ UNCHANGED <<ccrVars, prog, textVars, exc, console, discovered, manifests, mainVars, parts,
                   all_content, total_items>>

\* the article's try block, from the answer of scrape_content on
WArticleContent ==
    /\ pc = "await_article_content"
    /\ \E resp \in ContentResponses, diskOk \in BOOLEAN :
        LeafDone(LeafBlock(<<PIdx, CIdx, AIdx>>,
                           create_filename(cfgIdx, CurPart.part, CurChapter.chapter,
                                           CurArticle.article, CurArticle.title),
                           resp, diskOk))
    /\ pc' = "articles"
    /\ ai' = ai + 1
    /\ UNCHANGED <<pi, ci>>

\* the direct-content chapter's try block
WChapterContent ==
    /\ pc = "await_chapter_content"
    /\ \E resp \in ContentResponses, diskOk \in BOOLEAN :
        LeafDone(LeafBlock(<<PIdx, CIdx>>,
                           create_filename(cfgIdx, CurPart.part, CurChapter.chapter,
                                           NoParam, CurChapter.title),
                           resp, diskOk))
    /\ pc' = "chapters"
    /\ ci' = ci + 1
    /\ UNCHANGED <<pi, ai>>

\* the direct-content part's try block
WPartContent ==
    /\ pc = "await_part_content"
    /\ \E resp \in ContentResponses, diskOk \in BOOLEAN :
        LeafDone(LeafBlock(<<PIdx>>,
                           create_filename(cfgIdx, CurPart.part, NoParam, NoParam,
                                           CurPart.title),
                           resp, diskOk))
    /\ pc' = "parts"
    /\ pi' = pi + 1
    /\ UNCHANGED <<ci, ai>>

\* the structure file written only when some leaf was found
WSaveStructure_OnlyIfContent ==
    /\ pc = "parts" /\ pi > Len(parts)
    /\ manifests' = IF all_content # <<>>
                    THEN Append(manifests, [file |-> "structure.json", content |-> parts])
                    ELSE manifests
    /\ total_successful' = total_successful + successful_downloads
    /\ main_total_items' = main_total_items + total_items
    /\ cfgIdx' = cfgIdx + 1
    /\ pc' = "main"
    /\ UNCHANGED <<ccrVars, prog, textVars, exc, inflight, console, log, discovered, files, specific_parts, sectionVars>>

\* the part loop is exhausted: the structure file is written, the counts
\* are returned to main and added to its totals
WSaveStructure ==
    /\ pc = "parts" /\ pi > Len(parts)
    /\ manifests' = Append(manifests, [file |-> "structure.json", content |-> parts])
    /\ total_successful' = total_successful + successful_downloads
    /\ main_total_items' = main_total_items + total_items
    /\ cfgIdx' = cfgIdx + 1
    /\ pc' = "main"
    /\ UNCHANGED <<ccrVars, prog, textVars, exc, inflight, console, log, discovered, files, specific_parts, sectionVars>>

WaterNext ==
    \/ WMainNext \/ WMainDone \/ WDivisionResponse
    \/ WPartStep \/ WChaptersResponse
    \/ WChapterStep \/ WChaptersEnd \/ WArticlesResponse
    \/ WArticleStep \/ WArticlesEnd
    \/ WArticleContent \/ WChapterContent \/ WPartContent
    \/ WSaveStructure

Next == WaterNext \/ CcrNext

Spec == Init /\ [][Next]_vars

\* ========================================================= text functions
\* The functions that turn titles, image URLs and parsed pages into file
\* names and text lines.  A string is a sequence of one-character strings.

\* c * n
Str(c, n) == [k \in 1..n |-> c]

\* the character class [<>:"/\\|?*] of the three sanitizing re.sub calls
IllegalChars == {"<", ">", ":", "\"", "/", "\\", "|", "?", "*"}
SectionSign == "§"
\* the characters matched by \s
Whitespace == {" ", "\t", "\n"}

\* re.sub(r'[chars]', '', s) and re.sub(r'[chars]', '_', s)
ReRemove(chars, s) == SelectSeq(s, LAMBDA c : c \notin chars)
ReReplace(chars, s) == [k \in 1..Len(s) |-> IF s[k] \in chars THEN "_" ELSE s[k]]

\* s.strip()
Strip(s) ==
    LET inked == { k \in 1..Len(s) : s[k] \notin Whitespace } IN
    IF inked = {} THEN <<>>
    ELSE SubSeq(s, CHOOSE k \in inked : \A m \in inked : k <= m,
                   CHOOSE k \in inked : \A m \in inked : k >= m)

\* re.sub(r'\s+', '_', s): every run of whitespace becomes one underscore
SubWhitespace(s) ==
    LET marked == [k \in 1..Len(s) |->
                     IF s[k] \notin Whitespace THEN s[k]
                     ELSE IF k > 1 /\ s[k - 1] \in Whitespace THEN "" ELSE "_"]
    IN SelectSeq(marked, LAMBDA c : c # "")

\* s[:n]
Slice(s, n) == SubSeq(s, 1, IF Len(s) < n THEN Len(s) ELSE n)

\* create_safe_filename: `if len(clean_title) > 100: clean_title = clean_title[:100]`
SafeNameLimit == 100
\* create_filename: `title_clean = title_clean[:50]`
TitleLimit == 50

\* ccr-scraper.py create_safe_filename(title)
create_safe_filename(title) ==
    LET clean_title == ReRemove(IllegalChars \cup {SectionSign}, title)
    IN Slice(SubWhitespace(Strip(clean_title)), SafeNameLimit)

\* water-code-scraper.py create_filename: the title part of the file name
title_clean(title) ==
    Slice(SubWhitespace(ReReplace(IllegalChars, title)), TitleLimit)

\* "formula.png"
FormulaPng == <<"f", "o", "r", "m", "u", "l", "a", ".", "p", "n", "g">>

\* download_image: `parsed_url.path.split('/')[-1]`, or formula.png when
\* that is empty or has no dot; path is the URL path as its segments
ImageName(path) ==
    LET img_name == IF path = <<>> THEN <<>> ELSE path[Len(path)]
    IN IF img_name = <<>> \/ ~(\E k \in DOMAIN img_name : img_name[k] = ".")
       THEN FormulaPng
       ELSE img_name

\* download_image: local_filename = f"{clean_title}_{img_name}"
local_filename(section_title, path) ==
    LET clean_title ==
            SubWhitespace(ReReplace(IllegalChars \cup {SectionSign, "."}, section_title))
    IN clean_title \o <<"_">> \o ImageName(path)

\* download_image(img_url, section_title): the local file name, or None when
\* the request or the write of the image file raises
NoName == [none |-> TRUE, name |-> <<>>]
download_image(path, section_title, served) ==
    IF served THEN [none |-> FALSE, name |-> local_filename(section_title, path)]
    ELSE NoName

\* An <img> of a section page: the path of its src (NoSrc when the
\* attribute is missing or empty), whether its parent's class names a
\* figure, its alt text (NoAlt when the attribute is missing), and whether
\* the server serves it and the file can be written.
NoSrc == << <<"(no src)">> >>
NoAlt == "(no alt)"
Img(src, figure, alt, served) ==
    [src |-> src, figure |-> figure, alt |-> alt, served |-> served]

\* process_mathematical_images: the test on parent_class and img_alt; of
\* the alt texts of the model only this one holds one of the words
MathAlts == {"Water loss equation"}
Qualifies(img) == img.figure \/ img.alt \in MathAlts

\* the text node that replaces a downloaded image
Placeholder(name, img) ==
    [placeholder |-> name,
     text |-> IF img.alt = NoAlt THEN "Mathematical formula" ELSE img.alt]

\* what one iteration of the loop of process_mathematical_images does with
\* an image: whether download_image is called, and its answer
Requested(img) == img.src # NoSrc /\ Qualifies(img)
Downloaded(img, section_title) ==
    IF Requested(img) THEN download_image(img.src, section_title, img.served) ELSE NoName

\* the loop stopping at the first image whose download fails
process_mathematical_images_StopAtFailure(imgs, section_title) ==
    LET failed == { k \in DOMAIN imgs : Requested(imgs[k]) /\ ~imgs[k].served }
        seen == { k \in DOMAIN imgs : \A f \in failed : k < f }
        got(k) == Downloaded(imgs[k], section_title)
        hit == SelectSeq([k \in DOMAIN imgs |-> k], LAMBDA k : k \in seen /\ ~got(k).none)
    IN [images |-> [n \in DOMAIN hit |->
                      [original_url |-> imgs[hit[n]].src, local_file |-> got(hit[n]).name,
                       alt_text |-> IF imgs[hit[n]].alt = NoAlt THEN "" ELSE imgs[hit[n]].alt]],
        requested |-> SelectSeq([k \in DOMAIN imgs |-> k],
                                LAMBDA k : Requested(imgs[k]) /\ \A f \in failed : k <= f),
        soup |-> [k \in DOMAIN imgs |->
                    IF k \in seen /\ ~got(k).none THEN Placeholder(got(k).name, imgs[k])
                    ELSE imgs[k]]]

\* process_mathematical_images(soup, section_title), soup given as its
\* <img> elements in document order: the records of the images downloaded,
\* the positions download_image was called for, and the elements afterwards
process_mathematical_images(imgs, section_title) ==
    LET got(k) == Downloaded(imgs[k], section_title)
        hit == SelectSeq([k \in DOMAIN imgs |-> k], LAMBDA k : ~got(k).none)
    IN [images |-> [n \in DOMAIN hit |->
                      [original_url |-> imgs[hit[n]].src, local_file |-> got(hit[n]).name,
                       alt_text |-> IF imgs[hit[n]].alt = NoAlt THEN "" ELSE imgs[hit[n]].alt]],
        requested |-> SelectSeq([k \in DOMAIN imgs |-> k], LAMBDA k : Requested(imgs[k])),
        soup |-> [k \in DOMAIN imgs |->
                    IF ~got(k).none THEN Placeholder(got(k).name, imgs[k]) ELSE imgs[k]]]

\* A <div> of a parsed page: its classes, the text directly in it
\* (stripped) and its child <div>s, in document order.
Div(classes, text, children) == [classes |-> classes, text |-> text, children |-> children]

\* the concatenation of a sequence of sequences
RECURSIVE Concat(_)
Concat(seqs) == IF seqs = <<>> THEN <<>> ELSE Head(seqs) \o Concat(Tail(seqs))

\* div.get_text(strip=True)
RECURSIVE get_text(_)
get_text(div) ==
    div.text \o Concat([k \in DOMAIN div.children |-> get_text(div.children[k])])

\* div.find_all('div', class_=cls): the descendants of that class, in
\* document order
RECURSIVE find_all(_, _)
find_all(div, cls) ==
    Concat([k \in DOMAIN div.children |->
              (IF cls \in div.children[k].classes THEN <<div.children[k]>> ELSE <<>>)
              \o find_all(div.children[k], cls)])

\* an empty line of the output
Blank == <<>>
LowerLetters == {"a", "b", "c", "d", "e", "f", "g", "h", "i", "j", "k", "l", "m",
                 "n", "o", "p", "q", "r", "s", "t", "u", "v", "w", "x", "y", "z"}
\* re.match(r'^\([a-z]\)', para_text)
SubsectionId(para_text) ==
    /\ Len(para_text) >= 3
    /\ para_text[1] = "("
    /\ para_text[2] \in LowerLetters
    /\ para_text[3] = ")"

\* the blank line appended after the paragraph instead of before it
process_section_block_BlankAfter(block, content_lines) ==
    LET paragraphs == find_all(block, "co_paragraph")
        emitted(para) ==
            LET para_text == get_text(para) IN
            IF para_text = <<>> THEN <<>>
            ELSE <<para_text>> \o (IF SubsectionId(para_text) THEN <<Blank>> ELSE <<>>)
    IN content_lines
       \o Concat([k \in DOMAIN paragraphs |-> emitted(paragraphs[k])])
       \o <<Blank>>

\* process_section_block(block, content_lines): content_lines afterwards
process_section_block(block, content_lines) ==
    LET paragraphs == find_all(block, "co_paragraph")
        emitted(para) ==
            LET para_text == get_text(para) IN
            IF para_text = <<>> THEN <<>>
            ELSE (IF SubsectionId(para_text) THEN <<Blank>> ELSE <<>>) \o <<para_text>>
    IN content_lines
       \o Concat([k \in DOMAIN paragraphs |-> emitted(paragraphs[k])])
       \o <<Blank>>

\* process_subsection_block(block, content_lines): content_lines afterwards
process_subsection_block(block, content_lines) ==
    LET text == get_text(block) IN
    IF text # <<>> THEN content_lines \o <<text, Blank>> ELSE content_lines

\* process_paragraph_block(block, content_lines): content_lines afterwards
process_paragraph_block(block, content_lines) ==
    LET text == get_text(block) IN
    IF text # <<>> THEN Append(content_lines, text) ELSE content_lines

\* text.startswith(('Note:', 'History:', 'Credits')); the three prefixes are
\* single characters of the model's strings
NotePrefixes == {"Note:", "History:", "Credits"}
StartsWithNote(text) == text # <<>> /\ text[1] \in NotePrefixes

\* the <div id="co_docHeaderTitle"> of a page: its <h1> text and the texts
\* of the <li> of its <ul id="co_docHeaderCitation">, either of which may
\* be missing, as may the div itself
NoElement == [present |-> FALSE]
TitleSection(h1, citation) == [present |-> TRUE, h1 |-> h1, citation |-> citation]
Element(content) == [present |-> TRUE, content |-> content]

\* the heading without the separator line that closes the citations
HeadingLines_NoSeparator(title_section) ==
    IF ~title_section.present THEN <<>>
    ELSE (IF title_section.h1.present
          THEN LET title_text == title_section.h1.content
               IN <<title_text, Str("=", Len(title_text)), Blank>>
          ELSE <<>>)
         \o (IF title_section.citation.present
             THEN SelectSeq(title_section.citation.content, LAMBDA t : t # <<>>)
             ELSE <<>>)

\* extract_section_content: the title and citation lines
HeadingLines(title_section) ==
    IF ~title_section.present THEN <<>>
    ELSE (IF title_section.h1.present
          THEN LET title_text == title_section.h1.content
               IN <<title_text, Str("=", Len(title_text)), Blank>>
          ELSE <<>>)
         \o (IF title_section.citation.present
             THEN SelectSeq(title_section.citation.content, LAMBDA t : t # <<>>)
                  \o <<Blank>>
             ELSE <<>>)

\* extract_section_content: the body of `for block in content_blocks:`
BlockLines(block, content_lines) ==
    IF block.classes \cap {"co_documentHead", "co_printHeading"} # {}
    THEN content_lines
    ELSE IF "co_section" \in block.classes
    THEN process_section_block(block, content_lines)
    ELSE IF "co_subsection" \in block.classes
    THEN process_subsection_block(block, content_lines)
    ELSE IF "co_paragraph" \in block.classes
    THEN process_paragraph_block(block, content_lines)
    ELSE LET text == get_text(block) IN
         IF text # <<>> /\ ~StartsWithNote(text)
         THEN content_lines \o <<text, Blank>>
         ELSE content_lines

\* the loop over content_blocks, from content_lines on
RECURSIVE WalkBlocks(_, _)
WalkBlocks(content_blocks, content_lines) ==
    IF content_blocks = <<>> THEN content_lines
    ELSE WalkBlocks(Tail(content_blocks), BlockLines(Head(content_blocks), content_lines))

\* extract_section_content, from the title section on, for a page that has
\* a <div id="co_document">: content_lines as it is joined
SectionLines(page) ==
    WalkBlocks(find_all(page.doc_content, "co_contentBlock"),
               HeadingLines(page.title_section))

\* ------------------------------------------------------ inputs of a call
TitleChars == {"a", " ", "/", SectionSign, "."}
Titles ==
    UNION { [1..n -> TitleChars] : n \in 0..MaxTitle }
    \cup { Str("a", TitleLimit + 1), Str("a", SafeNameLimit + 1) }

\* URL paths of images, as their segments
EqPng == <<"e", "q", ".", "p", "n", "g">>
ImagePaths == { << <<"a">>, EqPng >>, << <<"b">>, EqPng >>, << <<"b">>, <<"I", "1">> >>,
                << <<"a">>, <<>> >> }

Imgs ==
    { Img(src, figure, alt, served) :
        src \in {NoSrc} \cup (ImagePaths \ {<< <<"a">>, <<>> >>}),
        figure \in BOOLEAN, alt \in {NoAlt} \cup MathAlts, served \in BOOLEAN }
ImagePages == UNION { [1..n -> Imgs] : n \in 0..MaxImgs }
SectionTitle == <<SectionSign, " ", "1", ".">>

\* texts of paragraphs
ParaTexts == { <<"(", "a", ")", "x">>, <<"(", "b", ")">>, <<"x">>, <<"(", "1", ")", "x">>,
               <<"(", "A", ")">>, <<"(", "a", "b", ")">>, <<>> }
\* <div class="co_paragraph"> elements without children
Paragraphs == { Div({"co_paragraph"}, t, <<>>) : t \in ParaTexts }
\* <div class="co_contentBlock co_section"> elements holding paragraphs
FlatSections ==
    { Div({"co_contentBlock", "co_section"}, <<>>, c) :
        c \in UNION { [1..n -> Paragraphs] : n \in 0..MaxParas } }
\* content_lines when a block function is called
LinesBefore == { <<>>, << <<"T">>, Blank >> }

\* section pages: a heading of any shape over at most one paragraph block ...
HeadingTexts == { <<"T", "i">>, <<>> }
CiteTexts == { <<"2", "3">>, <<"C">>, <<>> }
TitleSections ==
    {NoElement}
    \cup { TitleSection(h1, citation) :
             h1 \in {NoElement} \cup { Element(t) : t \in HeadingTexts },
             citation \in {NoElement}
                 \cup { Element(c) : c \in UNION { [1..n -> CiteTexts] : n \in 0..MaxCites } } }
Document(children) == Div({}, <<>>, children)
HeadingPages ==
    { [title_section |-> t, doc_content |-> Document(c)] :
        t \in TitleSections,
        c \in { <<>>, << Div({"co_contentBlock", "co_paragraph"}, <<"x">>, <<>>) >> } }

\* ... and pages without heading whose blocks nest: leaves that are or are
\* not tagged co_contentBlock, inside section or subsection blocks
LeafDivs ==
    { Div(cls, t, <<>>) :
        cls \in { {"co_contentBlock", "co_paragraph"}, {"co_paragraph"}, {"co_contentBlock"},
                  {"co_contentBlock", "co_documentHead"} },
        t \in { <<"x">>, <<"Note:", "y">> } }
InnerBlocks ==
    { Div({"co_contentBlock", kind}, <<>>, c) :
        kind \in {"co_section", "co_subsection"},
        c \in UNION { [1..n -> LeafDivs] : n \in 0..MaxParas } }
BlockPages ==
    { [title_section |-> NoElement, doc_content |-> Document(<<b>> \o rest)] :
        b \in InnerBlocks \cup LeafDivs,
        rest \in {<<>>} \cup { <<l>> : l \in LeafDivs } }

TextInputs(f) ==
    CASE f = "create_safe_filename" -> Titles
      [] f = "create_filename" -> Titles
      [] f = "download_image" ->
            [section_title : Titles, path : ImagePaths, served : BOOLEAN]
      [] f = "process_section_block" ->
            [block : FlatSections, content_lines : LinesBefore]
      [] f = "extract_section_content" -> HeadingPages \cup BlockPages
      [] f = "process_mathematical_images" ->
            [imgs : ImagePages, section_title : {SectionTitle}]

TextCalls == {"create_safe_filename", "create_filename", "download_image",
              "process_mathematical_images", "process_section_block",
              "extract_section_content"}

\* --------------------------------------------------------- one call each
crawlVars == <<exc, inflight, console, discovered, log, files, manifests, waterVars, ccrVars>>

TextInit ==
    /\ prog = "functions"
    /\ pc = "text_call"
    /\ NothingDone
    /\ \E f \in TextCalls : call = f /\ arg \in TextInputs(f)
    /\ result = <<>>

Returns(f, value) ==
    /\ pc = "text_call" /\ call = f
    /\ result' = value
    /\ pc' = "text_returned"
    /\ UNCHANGED <<prog, call, arg, crawlVars>>

CallCreateSafeFilename == Returns("create_safe_filename", create_safe_filename(arg))
CallCreateFilename == Returns("create_filename", title_clean(arg))
CallDownloadImage ==
    Returns("download_image", download_image(arg.path, arg.section_title, arg.served))

CallProcessImages ==
    Returns("process_mathematical_images",
            process_mathematical_images(arg.imgs, arg.section_title))

CallProcessSectionBlock ==
    Returns("process_section_block", process_section_block(arg.block, arg.content_lines))

CallExtractSectionContent ==
    Returns("extract_section_content", SectionLines(arg))

TextNext ==
    \/ CallCreateSafeFilename
    \/ CallCreateFilename
    \/ CallDownloadImage
    \/ CallProcessImages
    \/ CallProcessSectionBlock
    \/ CallExtractSectionContent

TextSpec == TextInit /\ [][TextNext]_vars

\* ============================================================= properties
\* Vocabulary over the event log and the discovered tree.
RootOps == {"get_division_structure", "extract_articles_from_chapter"}
ExpandOps == {"get_chapters_for_part", "get_articles_for_chapter",
              "extract_sections_from_article"}
ContentOps == {"scrape_content", "extract_section_content"}

IsFetch(e) == e.t = "fetch"
IsListingFetch(e) == e.t = "fetch" /\ e.op \in RootOps \cup ExpandOps
IsContentFetch(e) == e.t = "fetch" /\ e.op \in ContentOps
IsWrite(e) == e.t = "write"
IsSleep(e) == e.t = "sleep"
\* a fetch that gave its caller no document, a write that wrote no file
Failed(e) == e.res \in {"raised", "returned None"}

Visited(node) == \E k \in DOMAIN log : log[k].t \in {"fetch", "write"} /\ log[k].node = node
HasFile(node) == \E k \in DOMAIN files : files[k].node = node

\* the children recorded for an expandable node of the discovered tree
ChildrenOf(node) ==
    IF prog = "water"
    THEN IF Len(node) = 0 THEN parts
         ELSE IF Len(node) = 1 THEN parts[node[1]].chapters
         ELSE parts[node[1]].chapters[node[2]].articles
    ELSE IF Len(node) = 0 THEN articles
         ELSE articles[node[1]].sections

Parent(node) == SubSeq(node, 1, Len(node) - 1)
LaterSiblings(node) ==
    { Append(Parent(node), m) : m \in (node[Len(node)] + 1)..Len(ChildrenOf(Parent(node))) }

\* whether the code classifies the node as a listing of children
Expandable(node) ==
    IF prog = "water"
    THEN IF Len(node) = 0 THEN TRUE
         ELSE IF Len(node) = 1 THEN parts[node[1]].has_chapters
         ELSE IF Len(node) = 2 THEN parts[node[1]].chapters[node[2]].has_articles
         ELSE FALSE
    ELSE Len(node) < 2

\* node n lies in the subtree of a sibling that comes after the sibling
\* whose subtree holds node m
InLaterSubtree(n, m) ==
    \E d \in 1..Len(n) :
        /\ d <= Len(m)
        /\ SubSeq(n, 1, d - 1) = SubSeq(m, 1, d - 1)
        /\ n[d] > m[d]

\* the crawl whose log this is has run to its end and written its manifest
CrawlDone ==
    IF prog = "water" THEN pc \in {"main", "complete"} /\ manifests # <<>>
    ELSE pc = "ccr_complete"

\* C1: a failed fetch of an expandable node's listing page is caught, the
\* node is left with zero children, the run is not aborted and every later
\* sibling subtree is still visited.
C1_ExpansionFailureIsolated ==
    \A k \in DOMAIN log :
        (IsFetch(log[k]) /\ log[k].op \in ExpandOps /\ Failed(log[k]))
        => /\ exc.fn \notin ExpandOps
           /\ ChildrenOf(log[k].node) = <<>>
           /\ CrawlDone => \A s \in LaterSiblings(log[k].node) : Visited(s)

\* C2: a fetch failure, a missing content container or a file-write failure
\* on a leaf only skips that leaf: nothing raised while a leaf is processed
\* ends the run, and the skipped leaf has no file.
C2_LeafFailureSkipped ==
    /\ pc = "crashed" => ~(IsContentFetch(log[Len(log)]) \/ IsWrite(log[Len(log)]))
    /\ \A k \in DOMAIN log :
        ((IsContentFetch(log[k]) \/ IsWrite(log[k])) /\ Failed(log[k]))
        => ~HasFile(log[k].node)

\* C3: no fetch operation, listing or content, raises to its caller; it
\* returns a document or a failure value.
C3_FetchNeverRaises ==
    \A k \in DOMAIN log : IsFetch(log[k]) => log[k].res # "raised"

\* C4: a discovery from the root that yields no nodes ends the run fatally
\* (no normal completion, no empty manifest), and nothing else does.
C4_OnlyEmptyDiscoveryIsFatal ==
    /\ pc = "complete" => ~InList("No parts found!", console)
    /\ pc = "ccr_complete" => articles # <<>>
    /\ \A k \in DOMAIN manifests :
        /\ manifests[k].file = "structure.json" => manifests[k].content # <<>>
        /\ manifests[k].file = "scraping_log.json" => manifests[k].content.articles # <<>>
    /\ pc = "crashed" => exc.fn \in RootOps

\* the non-expandable nodes of the tree scrape_code_section has discovered
WaterLeaves ==
    { <<p>> : p \in { q \in DOMAIN parts : ~parts[q].has_chapters } }
    \cup UNION { { <<p, c>> : c \in { d \in DOMAIN parts[p].chapters :
                                        ~parts[p].chapters[d].has_articles } } :
                 p \in DOMAIN parts }
    \cup UNION { UNION { { <<p, c, a>> : a \in DOMAIN parts[p].chapters[c].articles } :
                         c \in DOMAIN parts[p].chapters } :
                 p \in DOMAIN parts }
CcrLeaves ==
    UNION { { <<a, b>> : b \in DOMAIN articles[a].sections } : a \in DOMAIN articles }

ContentFetched == { log[k].node : k \in { m \in DOMAIN log : IsContentFetch(log[m]) } }
Counted == { all_content[k] : k \in DOMAIN all_content }

\* the traversal is past node n: the crawl is done, or something in the
\* subtree of a later sibling of n or of an ancestor of n has been touched
Passed(n) ==
    \/ CrawlDone
    \/ \E k \in DOMAIN log :
        log[k].t \in {"fetch", "write"} /\ InLaterSubtree(log[k].node, n)

\* C5: an expandable node is never fetched for content nor written, a
\* non-expandable node is never expanded, and the nodes counted as leaves
\* and fetched for content are exactly the non-expandable ones: only they,
\* and every one of them the traversal has passed.
C5_LeavesAreTheNonExpandable ==
    /\ \A k \in DOMAIN log :
        /\ (IsContentFetch(log[k]) \/ IsWrite(log[k])) => ~Expandable(log[k].node)
        /\ IsListingFetch(log[k]) => Expandable(log[k].node)
    /\ \A k \in DOMAIN files : ~Expandable(files[k].node)
    /\ prog = "water" =>
        /\ total_items = Len(all_content)
        /\ Cardinality(Counted) = Len(all_content)
        /\ Counted \subseteq WaterLeaves
        /\ ContentFetched \subseteq Counted
    /\ \A n \in (IF prog = "water" THEN WaterLeaves ELSE CcrLeaves) :
        Passed(n) => /\ n \in ContentFetched
                     /\ prog = "water" => n \in Counted

\* a finished crawl that expanded a part into chapters and fetched two leaves,
\* one of them under that part, and wrote a file
C5_Witness ==
    /\ prog = "water" /\ CrawlDone
    /\ \E p \in DOMAIN parts : parts[p].has_chapters /\ <<p, 1>> \in ContentFetched
    /\ Cardinality(ContentFetched) = 2
    /\ files # <<>>

Increasing(nodes) ==
    \A a, b \in DOMAIN nodes : a < b => nodes[a].url < nodes[b].url
LexLess(x, y) == x[1] < y[1] \/ (x[1] = y[1] /\ x[2] < y[2])

\* C6: the manifest lists nodes in the order of their listing pages, and
\* the (article, section) numbers of the leaf file names never decrease in
\* discovery order, skipped leaves included.
C6_DocumentOrderPreserved ==
    /\ Increasing(parts)
    /\ \A p \in DOMAIN parts :
        /\ Increasing(parts[p].chapters)
        /\ \A c \in DOMAIN parts[p].chapters : Increasing(parts[p].chapters[c].articles)
    /\ Increasing(articles)
    /\ \A a \in DOMAIN articles : Increasing(articles[a].sections)
    /\ Increasing(scraping_log.articles)
    /\ \A a \in DOMAIN scraping_log.articles :
        /\ scraping_log.articles[a].url = articles[a].url
        /\ Increasing(scraping_log.articles[a].sections)
    /\ Increasing(article_info.sections)
    /\ prog = "ccr" =>
        \A a, b \in DOMAIN files :
            a < b => /\ LexLess(files[a].name, files[b].name)
                     /\ LexLess(files[a].node, files[b].node)
    /\ \A k \in DOMAIN manifests :
        manifests[k].file = "structure.json" => Increasing(manifests[k].content)

\* two section files of different articles, written around a skipped section
C6_Witness ==
    /\ prog = "ccr"
    /\ Len(files) = 2
    /\ files[1].name[1] = 1 /\ files[1].name[2] = 1
    /\ files[2].name[1] = 2 /\ files[2].name[2] = 1
    /\ <<1, 2>> \in ContentFetched /\ ~HasFile(<<1, 2>>)
    /\ Len(scraping_log.articles) = 2

\* C7: for siblings A before B, every fetch and write in A's subtree comes
\* before any fetch or write in B's subtree, and at most one request is in
\* flight.
C7_PreOrderOneAtATime ==
    /\ \A k, l \in DOMAIN log :
        (k < l /\ log[k].t \in {"fetch", "write"} /\ log[l].t \in {"fetch", "write"})
        => ~InLaterSubtree(log[k].node, log[l].node)
    /\ inflight \in {0, 1}

\* a chapter under the first part was fetched and written before the second
\* part was fetched
C7_Witness ==
    /\ prog = "water"
    /\ \E k, l \in DOMAIN log :
        /\ k < l
        /\ IsWrite(log[k]) /\ log[k].node = <<1, 1>>
        /\ IsFetch(log[l]) /\ log[l].node = <<2>>

\* C8: after every leaf content fetch, successful or not, the delay comes
\* before the next fetch is issued.
C8_DelayAfterEveryLeafFetch ==
    \A k, l \in DOMAIN log :
        (k < l /\ IsContentFetch(log[k]) /\ IsFetch(log[l]))
        => \E m \in DOMAIN log : k < m /\ m < l /\ IsSleep(log[m])

\* a division-page anchor that is a part entry and not flagged reserved
NonReservedPart(a) == a.div /\ a.kw /\ a.param # NoParam /\ ~a.reserved

\* C9: with a part filter supplied (any list, the empty list included) every
\* part returned has its label, trailing dots stripped, in the filter; with
\* no filter all non-reserved parts are returned.
C9_PartFilterRespected ==
    /\ (prog = "water" /\ ~specific_parts.none) =>
        \A p \in DOMAIN parts : InList(RStrip(parts[p].part), specific_parts.items)
    /\ \A resp \in ListingResponses(PartAnchors) :
        resp.container =>
            Len(get_division_structure(resp, NoFilter))
              = Cardinality({ k \in DOMAIN resp.anchors : NonReservedPart(resp.anchors[k]) })

\* C10: no entry flagged "(Reserved)" is in the discovered tree, at any of
\* the three levels, nor fetched for content or written.
C10_NoReservedNode ==
    \A p \in DOMAIN parts :
        /\ ~parts[p].title.reserved
        /\ \A c \in DOMAIN parts[p].chapters :
            /\ ~parts[p].chapters[c].title.reserved
            /\ \A a \in DOMAIN parts[p].chapters[c].articles :
                ~parts[p].chapters[c].articles[a].title.reserved

\* the root listing gave exactly one part, an expandable one, and the
\* expansion of that part has returned with no chapters
OnePartNoChapters ==
    /\ prog = "water"
    /\ Len(parts) = 1
    /\ PartExpands(parts[1])
    /\ parts[1].chapters = <<>>
    /\ \E k \in DOMAIN log :
        /\ log[k].op = "get_chapters_for_part"
        /\ log[k].node = <<1>>
        /\ log[k].res = "returned"

\* C11: a crawl whose root listing holds one expandable part whose expansion
\* finds no chapters ends normally: no exception, no leaf counted, no leaf
\* file written, and the crawl either is about to write its manifest or has
\* written it, once, with that part recorded with no children.
C11_EmptyPartCompletes ==
    OnePartNoChapters =>
        /\ pc # "crashed" /\ exc = NoExc
        /\ total_items = 0 /\ all_content = <<>>
        /\ successful_downloads = 0 /\ files = <<>>
        /\ \/ pc = "parts" /\ ENABLED WSaveStructure
           \/ /\ pc \in {"main", "complete"}
              /\ Len(manifests) = 1
              /\ Len(manifests[1].content) = 1
              /\ manifests[1].content[1].part = parts[1].part
              /\ manifests[1].content[1].chapters = <<>>

C11_Witness ==
    OnePartNoChapters /\ pc = "complete" /\ Len(manifests) = 1

\* the manifest files (not the image metadata) written by the current crawl
TreeManifests ==
    SelectSeq(manifests, LAMBDA m : m.file \in {"structure.json", "scraping_log.json"})

\* the current crawl has started and has ended, one way or another
CrawlEnded ==
    \/ pc \in {"crashed", "complete", "ccr_complete"}
    \/ prog = "water" /\ pc = "main" /\ cfgIdx > 1

\* every leaf of the discovered tree has been fetched for content
AllLeavesProcessed ==
    (IF prog = "water" THEN WaterLeaves ELSE CcrLeaves) \subseteq ContentFetched

\* C12: the manifest is written at most once per crawl and only after all
\* leaves have been processed, and every crawl that ends has written it,
\* whatever failed on the way.
C12_ManifestWrittenOncePerCrawl ==
    /\ Len(TreeManifests) <= 1
    /\ TreeManifests # <<>> => AllLeavesProcessed
    /\ CrawlEnded => Len(TreeManifests) = 1

\* no character of the sanitizers' character class, nor the section sign
FilesystemSafe(name) ==
    \A k \in DOMAIN name : name[k] \notin IllegalChars \cup {SectionSign}

\* C16: every file-name function returns, for every title, a name without
\* illegal characters and of bounded length: at most the function's limit,
\* whatever the length of the title.  (That two calls with the same title
\* agree holds of any function and is not part of the formula.)
C16_SanitizationTotalAndSafe ==
    pc = "text_returned" =>
        /\ call = "create_safe_filename" =>
              FilesystemSafe(result) /\ Len(result) <= SafeNameLimit
        /\ call = "create_filename" =>
              FilesystemSafe(result) /\ Len(result) <= TitleLimit
        /\ (call = "download_image" /\ ~result.none) =>
              /\ FilesystemSafe(result.name)
              /\ Len(result.name) <= SafeNameLimit + 1 + Len(ImageName(arg.path))

\* position k of the page holds a placeholder after the call
Replaced(soup, k) == "placeholder" \in DOMAIN soup[k]
\* the positions replaced, in document order
ReplacedAt(soup) == SelectSeq([k \in DOMAIN soup |-> k], LAMBDA k : Replaced(soup, k))
ImagesCalled == pc = "text_returned" /\ call = "process_mathematical_images"

\* C14: an image whose download fails is neither replaced nor recorded,
\* the images after it are still processed (a qualifying image that is
\* served is replaced and recorded whatever failed before it), and an
\* image that does not qualify is never requested, replaced or recorded.
C14_FailedDownloadSkipsOnlyThatImage ==
    ImagesCalled =>
        LET imgs == arg.imgs
            hit == ReplacedAt(result.soup)
        IN /\ \A k \in DOMAIN imgs :
                /\ (Requested(imgs[k]) /\ ~imgs[k].served)
                      => result.soup[k] = imgs[k]
                /\ (Requested(imgs[k]) /\ imgs[k].served)
                      => Replaced(result.soup, k)
                /\ ~Qualifies(imgs[k])
                      => /\ result.soup[k] = imgs[k]
                         /\ \A n \in DOMAIN result.requested : result.requested[n] # k
           \* the records are those of the replaced images, in order
           /\ Len(result.images) = Len(hit)
           /\ \A n \in DOMAIN hit :
                /\ result.images[n].original_url = imgs[hit[n]].src
                /\ result.images[n].local_file = result.soup[hit[n]].placeholder

C14_Witness ==
    /\ ImagesCalled
    /\ Len(arg.imgs) = 2
    /\ Requested(arg.imgs[1]) /\ ~arg.imgs[1].served
    /\ Replaced(result.soup, 2)
    /\ Len(result.images) = 1

\* C15: the images extracted from one page have pairwise different local
\* file names, so that no image file is overwritten by a later one.
C15_ImageNamesDistinct ==
    ImagesCalled =>
        \A m, n \in DOMAIN result.images :
            m # n => result.images[m].local_file # result.images[n].local_file

\* the records of the images metadata file written by the crawl, if any
ImageRecords ==
    LET written == SelectSeq(manifests, LAMBDA m : m.file = "images_metadata.json")
    IN IF written = <<>> THEN <<>> ELSE written[1].content

\* C13: every image downloaded is replaced by one placeholder at the
\* image's own position and has one record in what the call returns; and
\* when the crawl has ended, every image downloaded during it has exactly
\* one record in the image metadata written, also when the section it
\* belongs to gave no content.
C13_DownloadedImagesRecorded ==
    \* whatever images the section page that is awaited holds
    /\ pc = "await_section_page" =>
        \A page \in ImagePages :
            LET r == process_mathematical_images(page, SectionTitle) IN
            /\ \A k \in DOMAIN page :
                 (Requested(page[k]) /\ page[k].served) <=> Replaced(r.soup, k)
            /\ Len(r.images) = Len(ReplacedAt(r.soup))
    /\ (prog = "ccr" /\ pc = "ccr_complete") =>
        \A k \in DOMAIN log :
            log[k].t = "download" =>
                Cardinality({ n \in DOMAIN ImageRecords :
                                /\ ImageRecords[n].owner = log[k].node
                                /\ ImageRecords[n].local_file = log[k].res }) = 1

\* the text starts with an opening parenthesis, one lowercase letter and a
\* closing parenthesis
StartsNewGroup(text) ==
    Len(text) >= 3 /\ text[1] = "(" /\ text[2] \in LowerLetters /\ text[3] = ")"

\* C17: for a section block whose paragraphs all have text, the lines
\* appended are the paragraph texts in document order, with a blank line
\* right before each paragraph that starts with "(<lowercase letter>)" and
\* before no other, and exactly one blank line at the end.
C17_SectionBlockGroups ==
    (pc = "text_returned" /\ call = "process_section_block"
       /\ \A k \in DOMAIN arg.block.children : arg.block.children[k].text # <<>>) =>
        LET before == arg.content_lines
            texts == [k \in DOMAIN arg.block.children |-> arg.block.children[k].text]
            added == SubSeq(result, Len(before) + 1, Len(result))
            inked == SelectSeq([k \in DOMAIN added |-> k], LAMBDA k : added[k] # Blank)
            groups == Cardinality({ k \in DOMAIN texts : StartsNewGroup(texts[k]) })
        IN /\ SubSeq(result, 1, Len(before)) = before
           /\ [n \in DOMAIN inked |-> added[inked[n]]] = texts
           /\ \A n \in DOMAIN inked :
                StartsNewGroup(texts[n]) <=> (inked[n] > 1 /\ added[inked[n] - 1] = Blank)
           /\ Len(added) = Len(texts) + groups + 1
           /\ added[Len(added)] = Blank

\* "(a)x" then "(b)": two groups separated by blank lines
C17_Witness ==
    /\ pc = "text_returned" /\ call = "process_section_block"
    /\ arg.content_lines = <<>>
    /\ result = <<Blank, <<"(", "a", ")", "x">>, Blank, <<"(", "b", ")">>, Blank>>

\* a section page with an <h1> title and a citation list has been processed
HeadingEmitted ==
    /\ pc = "text_returned" /\ call = "extract_section_content"
    /\ arg.title_section.present
    /\ arg.title_section.h1.present
    /\ arg.title_section.citation.present

TitleText == arg.title_section.h1.content
Underline == Str("=", Len(TitleText))
CitationTexts == SelectSeq(arg.title_section.citation.content, LAMBDA t : t # <<>>)
StartsWith(lines, head) == Len(lines) >= Len(head) /\ SubSeq(lines, 1, Len(head)) = head

\* C18 as stated: the heading block is the title, the underline, the
\* citation texts and one blank line, with nothing between the underline
\* and the citation texts.
C18_HeadingBlock_AsStated ==
    HeadingEmitted =>
        StartsWith(result, <<TitleText, Underline>> \o CitationTexts \o <<Blank>>)

\* C18: the heading block is the title, an underline of "=" of the title's
\* length, a blank line, the citation texts that are not empty in list
\* order, and one blank line; the block lines follow.
C18_HeadingBlock ==
    HeadingEmitted =>
        LET heading == <<TitleText, Underline, Blank>> \o CitationTexts \o <<Blank>>
        IN /\ StartsWith(result, heading)
           /\ arg.doc_content.children = <<>> => result = heading

C18_Witness ==
    /\ HeadingEmitted
    /\ result = << <<"T", "i">>, <<"=", "=">>, Blank, <<"2", "3">>, <<"C">>, Blank, <<"x">> >>

\* a is b with some elements left out
RECURSIVE IsSubsequence(_, _)
IsSubsequence(a, b) ==
    \/ a = <<>>
    \/ /\ b # <<>>
       /\ IF Head(a) = Head(b) THEN IsSubsequence(Tail(a), Tail(b))
          ELSE IsSubsequence(a, Tail(b))

\* the lines that follow the heading block
BodyLines == SubSeq(result, Len(HeadingLines(arg.title_section)) + 1, Len(result))

\* C20: the text emitted for the content blocks of a page is the text of
\* the page's document, in document order, with parts left out but nothing
\* emitted twice, also when content blocks are nested.
C20_NestedBlocksEmittedOnce ==
    (pc = "text_returned" /\ call = "extract_section_content") =>
        IsSubsequence(Concat(BodyLines), get_text(arg.doc_content))

\* C19: within one crawl no two leaves are written to the same file name,
\* so that no leaf file is overwritten by a later leaf.
C19_LeafFilesDistinct ==
    \A m, n \in DOMAIN files :
        files[m].node # files[n].node => files[m].name # files[n].name
====
